---- MODULE Spec2Model ----
(***************************************************************************)
(* Model of the crawl engines of the sitemap generator.                    *)
(*                                                                         *)
(*   - startSafeCrawl / recursiveCrawl / smartCrawl / fetchWithAxios /     *)
(*     crawlWithPuppeteer   (backend/utils/htmlBuilder.js)                 *)
(*   - startCrawl / crawl   (the simple recursive crawler)                 *)
(*                                                                         *)
(* Spec          the two crawlers against an arbitrary small web           *)
(* SpecTerminates startSafeCrawl alone, every await settling eventually    *)
(* SpecNorm      normalizeUrl called on its own                            *)
(* SpecRender    crawlWithPuppeteer called on its own, several times       *)
(* SpecScenario  startSafeCrawl against one fixed site, all pages served   *)
(* SpecHub       startSafeCrawl against a homepage with more links than    *)
(*               the child cap                                             *)
(* SpecQueue     the CrawlQueue of crawlQueue.js                           *)
(* SpecRequest   one HTTP request to a sitemap controller, validateUrl     *)
(*                                                                         *)
(* Strings are sequences of tokens; a URL string is parsed, normalised and *)
(* compared (startsWith) token by token as the code does it on characters. *)
(***************************************************************************)
EXTENDS Integers, Sequences, FiniteSets, TLC

\* ------------------------------------------------------------------------
\* Bounds of the model
\* ------------------------------------------------------------------------

\* longest list of links a page answers with
MaxLinks == 2

\* ------------------------------------------------------------------------
\* CONFIG (htmlBuilder.js), scaled where the real value is out of reach
\* ------------------------------------------------------------------------

MAX_DEPTH == 3

MAX_PAGES == 3

MAX_RETRIES == 2

\* .slice(0, 10) in recursiveCrawl
MAX_CHILDREN == 10

\* textContent.length < 200 in needsJavaScriptRendering
MIN_CONTENT == 200

\* validateStatus: status < 500
VALIDATE_LIMIT == 500

\* ------------------------------------------------------------------------
\* Strings
\* ------------------------------------------------------------------------

Last(s) == s[Len(s)]

Front(s) == SubSeq(s, 1, Len(s) - 1)

\* String.prototype.startsWith
StartsWith(s, p) == Len(p) <= Len(s) /\ SubSeq(s, 1, Len(p)) = p

\* String.prototype.includes for a keyword
Includes(s, kw) == \E i \in 1..Len(s) : s[i] = kw

SchemeTokens == {"https://"}

QueryTokens == {"?ref=1"}

HashTokens == {"#section"}

\* index of the first token of s at or after i that lies in T, Len(s)+1 if none
RECURSIVE IndexFrom(_, _, _)
IndexFrom(s, i, T) ==
    IF i > Len(s) THEN Len(s) + 1
    ELSE IF s[i] \in T THEN i
    ELSE IndexFrom(s, i + 1, T)

\* new URL(url): ok = FALSE when the constructor throws
ParseUrl(s) ==
    IF Len(s) < 2 \/ s[1] \notin SchemeTokens
          \/ s[2] \in {"/"} \cup QueryTokens \cup HashTokens
    THEN [ok |-> FALSE, origin |-> <<>>, pathname |-> <<>>]
    ELSE LET hostEnd == IndexFrom(s, 2, {"/"} \cup QueryTokens \cup HashTokens)
             pathEnd == IndexFrom(s, hostEnd, QueryTokens \cup HashTokens)
             path    == SubSeq(s, hostEnd, pathEnd - 1)
         IN  [ok |-> TRUE,
              origin |-> SubSeq(s, 1, hostEnd - 1),
              pathname |-> IF path = <<>> THEN <<"/">> ELSE path]

\* the pathname is kept as it is
KeepTrailingSlash(p) == p

\* pathname.replace(/\/$/, ''): removes one trailing slash
StripTrailingSlash(p) ==
    IF Len(p) > 0 /\ Last(p) = "/" THEN Front(p) ELSE p

\* the value normalizeUrl returns for an unparseable url
Null == <<>>

normalizeUrl(url) ==
    LET parsedUrl == ParseUrl(url)
    IN  IF parsedUrl.ok
        THEN parsedUrl.origin \o StripTrailingSlash(parsedUrl.pathname)
        ELSE Null

\* ------------------------------------------------------------------------
\* The web the crawler runs against
\* ------------------------------------------------------------------------

SeedUrl == <<"https://", "example.com">>

BadUrl == <<"not a url">>

Seeds == {SeedUrl, BadUrl}

\* absolute hrefs a page can contain
Links ==
    { <<"https://", "example.com", "/", "x">>,
      <<"https://", "example.com", "/", "x", "/">>,
      <<"https://", "example.com", "/", "react", "?ref=1">>,
      <<"https://", "example.com", ".evil.org", "/", "x">>,
      <<"https://", "other.org", "/", "x">> }

LinkLists == UNION { [1..n -> Links] : n \in 0..MaxLinks }

\* response bodies: empty string, static page, short page, framework page,
\* and a body the HTML parser throws on
EmptyHtml == [empty |-> TRUE, tokens |-> {}, bodyLen |-> 0, parses |-> TRUE]

Htmls ==
    { EmptyHtml,
      [empty |-> FALSE, tokens |-> {},                bodyLen |-> 200, parses |-> TRUE],
      [empty |-> FALSE, tokens |-> {},                bodyLen |-> 199, parses |-> TRUE],
      [empty |-> FALSE, tokens |-> {},                bodyLen |-> 50,  parses |-> TRUE],
      [empty |-> FALSE, tokens |-> {"__NEXT_DATA__"}, bodyLen |-> 500, parses |-> TRUE],
      [empty |-> FALSE, tokens |-> {},                bodyLen |-> 500, parses |-> FALSE] }


\* ------------------------------------------------------------------------
\* Errors and the fetch strategies
\* ------------------------------------------------------------------------

NoError == [code |-> "none", status |-> 0]

\* network-level errors of one GET
NetworkErrors ==
    { [code |-> c, status |-> 0] :
        c \in {"ENOTFOUND", "ERR_INVALID_URL", "ETIMEDOUT", "EPROTO"} }

\* HTTP statuses a server answers with
Statuses == {200, 404, 500}

\* validateStatus of createAxiosInstance
validateStatus(status) == status < VALIDATE_LIMIT

\* what one axiosInstance.get(url) can meet: a network error, or an HTTP
\* answer with a body and the hrefs of its anchors
HttpAnswers ==
    { [kind |-> "http", status |-> st, html |-> h, links |-> ls, err |-> NoError] :
        st \in Statuses, h \in Htmls, ls \in LinkLists }

WellFormedAnswer(a) ==
    \/ a.kind = "error"
    \/ /\ a.kind = "http"
       /\ (a.html.empty \/ ~a.html.parses \/ ~validateStatus(a.status)) => a.links = <<>>
       /\ ~validateStatus(a.status) => a.html = EmptyHtml

Answers ==
    { a \in HttpAnswers : WellFormedAnswer(a) }
      \cup { [kind |-> "error", status |-> 0, html |-> EmptyHtml,
              links |-> <<>>, err |-> e] : e \in NetworkErrors }

\* the error axios throws for an answer, NoError when it resolves
AxiosError(a) ==
    IF a.kind = "error" THEN a.err
    ELSE IF validateStatus(a.status) THEN NoError
    ELSE [code |-> "ERR_BAD_RESPONSE", status |-> a.status]

\* the codes getErrorType classifies as SSL_ERROR
tlsErrors == {"EPROTO"}

noRetryErrors == {"ENOTFOUND", "ERR_INVALID_URL"}

noRetryStatuses == {400, 401, 403, 404, 410}

\* only the HTTP statuses end the retries
shouldNotRetryStatusOnly(error) ==
    error.status # 0 /\ error.status \in noRetryStatuses

shouldNotRetry(error) ==
    \/ error.code \in noRetryErrors
    \/ (error.status # 0 /\ error.status \in noRetryStatuses)

\* the catch block retries whatever the attempt
MayRetryForever(attempt, maxRetries) == TRUE

\* attempt < maxRetries in the catch block of fetchWithAxios
MayRetry(attempt, maxRetries) == attempt < maxRetries

JS_HEAVY_SITES ==
    {"react", "vue", "angular", "next", "gatsby", "goibibo", "makemytrip",
     "booking.com", "airbnb", "instagram", "twitter", "facebook"}

jsIndicators ==
    {"data-react", "data-reactroot", "data-reactid", "ng-app", "ng-controller",
     "ng-view", "v-app", "v-cloak", "__NEXT_DATA__", "gatsby"}

needsJavaScriptRendering(url, html) ==
    LET urlNeedsJS == \E keyword \in JS_HEAVY_SITES : Includes(url, keyword)
    IN  IF ~html.empty
        THEN LET hasJsFramework    == html.tokens \cap jsIndicators # {}
                 hasMinimalContent == html.bodyLen < MIN_CONTENT
             IN  hasJsFramework \/ hasMinimalContent
        ELSE urlNeedsJS

\* [...new Set(links)]: first occurrences, in order
RECURSIVE Dedup(_)
Dedup(s) ==
    IF s = <<>> THEN <<>>
    ELSE LET d == Dedup(Front(s))
         IN  IF \E i \in 1..Len(d) : d[i] = Last(s) THEN d ELSE Append(d, Last(s))

\* results of the render fetcher on a caller-supplied browser
PuppeteerOutcomes ==
    { [success |-> TRUE, links |-> ls] : ls \in LinkLists }
      \cup { [success |-> FALSE, links |-> <<>>] }

NoResult ==
    [success |-> FALSE, statusCode |-> 0, method |-> "none", links |-> <<>>, error |-> "none"]


\* ------------------------------------------------------------------------
\* State
\* ------------------------------------------------------------------------

VARIABLES
    phase,          \* position of the entry point. startSafeCrawl: launching, running,
                    \* returned, catch, threw; startCrawl: crawling, crawlReturned,
                    \* crawlThrew
    startUrl,       \* the seed the entry point was called with
    baseUrl,        \* origin of the seed
    browser,        \* the shared browser of startSafeCrawl: none, open, closed
    visitedUrls,    \* Set of normalized keys
    crawlResults,   \* array of page outcomes
    stack,          \* frames of recursiveCrawl, innermost last
    fetch,          \* the smartCrawl call in flight
    calls,          \* invocations of crawl (simple crawler), in call order
    uniqueUrls,     \* what startCrawl returns
    dispatched,     \* history: every target passed to smartCrawl / axios.get
    CONFIG,         \* the budget of the run: MAX_DEPTH, MAX_PAGES
    closeLog,       \* browser.close() of startSafeCrawl: calls made, calls resolved
    norm,           \* a caller of normalizeUrl: its argument and what it got back
    render,         \* a caller of crawlWithPuppeteer and the call in progress
    request,        \* one HTTP request to a sitemap controller
    crawlQueue      \* one CrawlQueue object and its processing loop

vars == <<phase, startUrl, baseUrl, browser, visitedUrls, crawlResults, stack, fetch,
          calls, uniqueUrls, dispatched, CONFIG, closeLog, norm, render,
          request, crawlQueue>>

\* the variables only the simple crawler writes
simpleVars == <<calls, uniqueUrls>>

\* the variables only startSafeCrawl writes
safeVars == <<browser, closeLog, crawlResults, stack, fetch>>

\* what no step of a crawl writes: the budget, the state of the callers of
\* normalizeUrl and crawlWithPuppeteer, the controllers and the CrawlQueue
restVars == <<CONFIG, norm, render, request, crawlQueue>>

\* no browser.close() has been called
NoClose == [calls |-> 0, resolved |-> 0]

\* nobody has called normalizeUrl
IdleNorm == [pc |-> "idle", url |-> <<>>, key |-> <<>>, again |-> <<>>,
             variant |-> <<>>, variantKey |-> <<>>]

\* nobody has called crawlWithPuppeteer; the caller holds an open browser
\*   shared: the caller's browser          browserArg: the argument, null or shared
\*   localBrowser: null, shared or own      own: the browser the call launched
\*   page: the page the call opened         sharedPages: pages open in the caller's
\*   step: the await the page is at                      browser
\*   result: what the call returns          calls: calls made so far
IdleRender ==
    [pc |-> "idle", shared |-> "open", sharedPages |-> 0, browserArg |-> "null",
     localBrowser |-> "null", own |-> "none", page |-> "none", step |-> 0,
     result |-> "none", calls |-> 0]

\* validateUrl has not been called
\*   pc: none, dns, head, returned     head: the status the HEAD request met
NoValidation ==
    [pc |-> "none", finalUrl |-> <<>>, statusCode |-> 0, head |-> 0, isSafe |-> TRUE,
     issues |-> {}, warnings |-> {}, canProceed |-> FALSE]

\* no request has reached a controller
\*   pc: idle, validating, crawling, saving, responded, next (the error went
\*       to next(error))
\*   crawl: the engine called, none when it was not
\*   report: entries and successful entries of what the engine returned
IdleRequest ==
    [pc |-> "idle", handler |-> "none", url |-> <<>>, saveToDb |-> TRUE,
     validation |-> NoValidation, crawl |-> "none", crawlUrl |-> <<>>,
     report |-> [total |-> 0, successful |-> 0], html |-> "none",
     save |-> "none", status |-> 0, sitemapId |-> "none", summary |-> "none"]

\* new CrawlQueue(): crawlQueue.js lines 39-65
\*   queue: pending items          active, failed: keys of the Maps
\*   completed: the Map as a set of entries, one per url
\*   pc: idle, head, wait, batch, rateDelay (position of processQueue)
\*   batch: the items whose processUrl awaits smartCrawl
\*   loops: processQueue loops running        starts: calls of start()
\*   attempts, onErrorCalls: history per url
\* the URLs handed to CrawlQueue.add: two that differ in a trailing slash
\* and a third
QueueUrls ==
    { SeedUrl \o <<"/", "x">>, SeedUrl \o <<"/", "x", "/">>, SeedUrl \o <<"/", "y">> }

NewQueue ==
    [queue |-> <<>>, active |-> {}, completed |-> <<>>, failed |-> {},
     stats |-> [totalQueued |-> 0, totalCompleted |-> 0, totalFailed |-> 0],
     isRunning |-> FALSE, pc |-> "idle", batch |-> {}, loops |-> 0, starts |-> 0,
     attempts |-> [u \in QueueUrls |-> 0], onErrorCalls |-> [u \in QueueUrls |-> 0],
     results |-> [u \in QueueUrls |-> "none"], alreadyRunning |-> 0]

IdleFetch ==
    [pc |-> "idle", url |-> <<>>, attempt |-> 0, gets |-> 0, renders |-> 0,
     axios |-> "none", error |-> NoError, html |-> EmptyHtml,
     result |-> NoResult]

Init ==
    /\ phase = "idle"
    /\ startUrl = <<>>
    /\ baseUrl = <<>>
    /\ browser = "none"
    /\ visitedUrls = {}
    /\ crawlResults = <<>>
    /\ stack = <<>>
    /\ fetch = IdleFetch
    /\ calls = <<>>
    /\ uniqueUrls = <<>>
    /\ dispatched = <<>>
    /\ CONFIG = [MAX_DEPTH |-> MAX_DEPTH, MAX_PAGES |-> MAX_PAGES]
    /\ closeLog = NoClose
    /\ norm = IdleNorm
    /\ render = IdleRender
    /\ request = IdleRequest
    /\ crawlQueue = NewQueue

\* ------------------------------------------------------------------------
\* recursiveCrawl
\* ------------------------------------------------------------------------

\* the page limit compared one page too late
PageLimitReachedLate(visited) == Cardinality(visited) > CONFIG.MAX_PAGES

\* visitedUrls.size >= CONFIG.MAX_PAGES (lines 519 and 574)
PageLimitReached(visited) == Cardinality(visited) >= CONFIG.MAX_PAGES

\* line 519
StopCondition(currentDepth, visited) ==
    currentDepth > CONFIG.MAX_DEPTH \/ PageLimitReached(visited)

\* the entry check without the visited-set lookup
AlreadyVisitedUnchecked(normalizedUrl, visited) ==
    normalizedUrl = Null

\* line 524
AlreadyVisited(normalizedUrl, visited) ==
    normalizedUrl = Null \/ normalizedUrl \in visited

\* the recursive call made without incrementing the depth
ChildDepthSame(currentDepth) == currentDepth

\* line 581
ChildDepth(currentDepth) == currentDepth + 1

\* lines 561-566
IsInternalUnvisited(link, base, visited) ==
    LET normalized == normalizeUrl(link)
    IN  normalized # Null /\ StartsWith(normalized, base) /\ normalized \notin visited

\* lines 560-567
FilterChildren(links, base, visited) ==
    LET kept == SelectSeq(links, LAMBDA link : IsInternalUnvisited(link, base, visited))
    IN  SubSeq(kept, 1, IF Len(kept) < MAX_CHILDREN THEN Len(kept) ELSE MAX_CHILDREN)

\* line 572
MayDescend(currentDepth, childUrls) ==
    currentDepth < CONFIG.MAX_DEPTH /\ Len(childUrls) > 0

\* a return that unwinds every caller
ResumeAborted(callers) == <<>>

\* the caller's stack after the innermost call has returned: the for loop
\* of the caller moves to its next child
Resume(callers) ==
    IF callers = <<>> THEN <<>>
    ELSE [callers EXCEPT ![Len(callers)].pc = "loop", ![Len(callers)].i = @ + 1]

\* smartCrawl(url, browser) up to its first await: fetchWithAxios, attempt 1
StartFetch(url) ==
    [IdleFetch EXCEPT !.pc = "axios", !.url = url, !.attempt = 1, !.gets = 1]

\* a call recursiveCrawl(url, depth, ...) made with the frames callers below it,
\* up to its first await (lines 517-533)
Call(url, depth, parentDepth, callers) ==
    LET normalizedUrl == normalizeUrl(url)
    IN  IF StopCondition(depth, visitedUrls) \/ AlreadyVisited(normalizedUrl, visitedUrls)
        THEN /\ stack' = Resume(callers)
             /\ UNCHANGED <<visitedUrls, fetch, dispatched>>
        ELSE /\ visitedUrls' = visitedUrls \cup {normalizedUrl}
             /\ stack' = Append(callers,
                    [url |-> url, depth |-> depth, pc |-> "fetch", childUrls |-> <<>>, i |-> 0])
             /\ fetch' = StartFetch(url)
             /\ dispatched' = Append(dispatched,
                    [url |-> url, key |-> normalizedUrl, depth |-> depth, parent |-> parentDepth])

\* ------------------------------------------------------------------------
\* startSafeCrawl
\* ------------------------------------------------------------------------

\* the seed is taken as it comes
SeedParsesUnchecked(url) == TRUE

\* lines 616-620: new URL(startUrl) does not throw
SeedParses(url) == ParseUrl(url).ok

\* lines 609-640: parse the seed, then await puppeteer.launch
StartSafeCrawl(url) ==
    /\ phase = "idle"
    /\ startUrl' = url
    /\ IF SeedParses(url)
       THEN /\ baseUrl' = ParseUrl(url).origin
            /\ phase' = "launching"
       ELSE /\ phase' = "threw"
            /\ UNCHANGED baseUrl
    /\ UNCHANGED <<browser, closeLog, visitedUrls, crawlResults, stack, fetch, dispatched>>
    /\ UNCHANGED simpleVars
    /\ UNCHANGED restVars

\* lines 631-646: the launch resolves or rejects; on success the root call
BrowserLaunched(ok) ==
    /\ phase = "launching"
    /\ IF ok
       THEN /\ browser' = "open"
            /\ phase' = "running"
            /\ Call(startUrl, 1, 0, <<>>)
       ELSE /\ phase' = "threw"
            /\ UNCHANGED <<browser, visitedUrls, stack, fetch, dispatched>>
    /\ UNCHANGED <<startUrl, baseUrl, crawlResults, closeLog>>
    /\ UNCHANGED simpleVars
    /\ UNCHANGED restVars

\* the browser is left as it is
CloseBrowserSkipped(b, ok) == b

\* await browser.close(): the handle is closed when the call resolves
CloseBrowser(b, ok) == IF ok THEN "closed" ELSE b

\* one more call of browser.close() in the log
LogClose(log, ok) ==
    [calls |-> log.calls + 1, resolved |-> log.resolved + (IF ok THEN 1 ELSE 0)]

\* lines 648-663: the root call has returned; close the browser and return
\* the results, or land in the catch block when browser.close() rejects
BrowserClose(ok) ==
    /\ phase = "running"
    /\ stack = <<>>
    /\ browser' = CloseBrowser(browser, ok)
    /\ closeLog' = LogClose(closeLog, ok)
    /\ phase' = IF ok THEN "returned" ELSE "catch"
    /\ UNCHANGED <<startUrl, baseUrl, visitedUrls, crawlResults, stack, fetch, dispatched>>
    /\ UNCHANGED simpleVars
    /\ UNCHANGED restVars

\* lines 665-673 with a launched browser: close it and rethrow
CatchClose(ok) ==
    /\ phase = "catch"
    /\ browser # "none"
    /\ browser' = CloseBrowser(browser, ok)
    /\ closeLog' = LogClose(closeLog, ok)
    /\ phase' = "threw"
    /\ UNCHANGED <<startUrl, baseUrl, visitedUrls, crawlResults, stack, fetch, dispatched>>
    /\ UNCHANGED simpleVars
    /\ UNCHANGED restVars

\* ------------------------------------------------------------------------
\* smartCrawl, fetchWithAxios, crawlWithPuppeteer
\* ------------------------------------------------------------------------

\* crawlWithPuppeteer(url, browser) is entered: lines 492 and 507
StartRender(f) ==
    [f EXCEPT !.pc = "puppeteer", !.renders = @ + 1]

\* lines 495-499
LightResult(a) ==
    [success |-> TRUE, statusCode |-> a.status, method |-> "axios",
     links |-> a.links, error |-> "none"]

\* lines 356-372
RenderResult(o) ==
    IF o.success
    THEN [success |-> TRUE, statusCode |-> 0, method |-> "puppeteer",
          links |-> Dedup(o.links), error |-> "none"]
    ELSE [success |-> FALSE, statusCode |-> 0, method |-> "puppeteer",
          links |-> <<>>, error |-> "render failed"]

\* lines 484-507 once fetchWithAxios has returned axiosResult
AfterLightSuccess(f, a) ==
    LET g == [f EXCEPT !.axios = "resolved", !.html = a.html, !.error = NoError]
    IN  IF ~a.html.parses
        THEN StartRender(g)                         \* extraction throws: catch, line 507
        ELSE IF needsJavaScriptRendering(f.url, a.html)
        THEN StartRender(g)                         \* line 492
        ELSE [g EXCEPT !.pc = "done", !.result = LightResult(a)]

\* the lightweight error is reported as the result, without a render
AfterLightThrowReported(f, a) ==
    [f EXCEPT !.pc = "done", !.axios = "threw", !.error = AxiosError(a),
              !.result = [NoResult EXCEPT !.method = "axios", !.error = AxiosError(a).code]]

\* lines 502-507 once fetchWithAxios has thrown
AfterLightThrow(f, a) ==
    StartRender([f EXCEPT !.axios = "threw", !.error = AxiosError(a)])

\* one axiosInstance.get(url) settles: lines 396-428 and what smartCrawl does
\* with the outcome
AxiosSettles(a) ==
    /\ fetch.pc = "axios"
    /\ LET error == AxiosError(a)
       IN  fetch' =
             IF error = NoError THEN AfterLightSuccess(fetch, a)
             ELSE IF shouldNotRetry(error) THEN AfterLightThrow(fetch, a)
             ELSE IF MayRetry(fetch.attempt, MAX_RETRIES)
                  THEN [fetch EXCEPT !.pc = "backoff", !.error = error]
             ELSE AfterLightThrow(fetch, a)
    /\ UNCHANGED <<phase, startUrl, baseUrl, browser, closeLog, visitedUrls, crawlResults, stack, dispatched>>
    /\ UNCHANGED simpleVars
    /\ UNCHANGED restVars

\* line 425 resolves and the for loop of fetchWithAxios issues the next GET
BackoffElapsed ==
    /\ fetch.pc = "backoff"
    /\ fetch' = [fetch EXCEPT !.pc = "axios", !.attempt = @ + 1, !.gets = @ + 1]
    /\ UNCHANGED <<phase, startUrl, baseUrl, browser, closeLog, visitedUrls, crawlResults, stack, dispatched>>
    /\ UNCHANGED simpleVars
    /\ UNCHANGED restVars

\* crawlWithPuppeteer returns (it catches every error of the page)
PuppeteerSettles(o) ==
    /\ fetch.pc = "puppeteer"
    /\ fetch' = [fetch EXCEPT !.pc = "done", !.result = RenderResult(o)]
    /\ UNCHANGED <<phase, startUrl, baseUrl, browser, closeLog, visitedUrls, crawlResults, stack, dispatched>>
    /\ UNCHANGED simpleVars
    /\ UNCHANGED restVars

\* ------------------------------------------------------------------------
\* recursiveCrawl after smartCrawl has returned
\* ------------------------------------------------------------------------

\* lines 538-543 and 548-557
Outcome(url, result, currentDepth) ==
    IF ~result.success
    THEN [url |-> url, success |-> FALSE, statusCode |-> 0, method |-> "none",
          depth |-> currentDepth, error |-> result.error]
    ELSE [url |-> url, success |-> TRUE,
          statusCode |-> IF result.statusCode # 0 THEN result.statusCode ELSE 200,
          method |-> result.method, depth |-> currentDepth, error |-> "none"]

\* a failed page returns without being pushed
RecordSuccessOnly(results, url, result, currentDepth) ==
    IF result.success THEN Append(results, Outcome(url, result, currentDepth)) ELSE results

\* crawlResults.push of lines 538 and 548
Record(results, url, result, currentDepth) ==
    Append(results, Outcome(url, result, currentDepth))

\* lines 535-572
HandleResult ==
    /\ phase = "running"
    /\ stack # <<>>
    /\ Last(stack).pc = "fetch"
    /\ fetch.pc = "done"
    /\ LET top      == Last(stack)
           result   == fetch.result
           childUrls == FilterChildren(result.links, baseUrl, visitedUrls)
       IN  /\ crawlResults' = Record(crawlResults, top.url, result, top.depth)
           /\ stack' =
                IF ~result.success THEN Resume(Front(stack))
                ELSE IF MayDescend(top.depth, childUrls)
                THEN [stack EXCEPT ![Len(stack)].pc = "loop",
                                   ![Len(stack)].childUrls = childUrls,
                                   ![Len(stack)].i = 1]
                ELSE Resume(Front(stack))
    /\ fetch' = IdleFetch
    /\ UNCHANGED <<phase, startUrl, baseUrl, browser, closeLog, visitedUrls, dispatched>>
    /\ UNCHANGED simpleVars
    /\ UNCHANGED restVars

\* lines 573-577: head of the for loop over childUrls
LoopHead ==
    /\ phase = "running"
    /\ stack # <<>>
    /\ Last(stack).pc = "loop"
    /\ LET top == Last(stack)
       IN  stack' =
             IF top.i > Len(top.childUrls) \/ PageLimitReached(visitedUrls)
             THEN Resume(Front(stack))
             ELSE [stack EXCEPT ![Len(stack)].pc = "delay"]
    /\ UNCHANGED <<phase, startUrl, baseUrl, browser, closeLog, visitedUrls, crawlResults, fetch, dispatched>>
    /\ UNCHANGED simpleVars
    /\ UNCHANGED restVars

\* the child is called while the loop is still at its head
AwaitedDelaySkipped(frame) ==
    frame.pc \in {"loop", "delay"} /\ frame.i <= Len(frame.childUrls)

\* line 577: the frame has awaited delay(CONFIG.DELAY_BETWEEN_REQUESTS)
AwaitedDelay(frame) == frame.pc = "delay"

\* line 577 resolves, then the call of lines 579-586
DelayElapsed ==
    /\ phase = "running"
    /\ stack # <<>>
    /\ AwaitedDelay(Last(stack))
    /\ LET top == Last(stack)
       IN  Call(top.childUrls[top.i], ChildDepth(top.depth), top.depth,
                [stack EXCEPT ![Len(stack)].pc = "call"])
    /\ UNCHANGED <<phase, startUrl, baseUrl, browser, closeLog, crawlResults>>
    /\ UNCHANGED simpleVars
    /\ UNCHANGED restVars

\* ------------------------------------------------------------------------
\* The simple crawler: startCrawl / crawl
\* ------------------------------------------------------------------------

\* MAX_DEPTH of the simple crawler
CRAWL_MAX_DEPTH == 3

\* what the GET of crawl can meet: it throws, it answers something that is
\* not a 200 HTML page, or it answers a page with anchors
CrawlAnswers ==
    { [kind |-> k, links |-> <<>>] : k \in {"error", "other"} }
      \cup { [kind |-> "page", links |-> ls] : ls \in LinkLists }

\* line 34
TooDeep(currentDepth) == currentDepth > CRAWL_MAX_DEPTH

\* line 79
IsNewInternal(absoluteNormalized, base, visited) ==
    StartsWith(absoluteNormalized, base) /\ absoluteNormalized \notin visited

\* crawl(url, depth, ...) up to its first await (lines 34-50): the call either
\* returns [] at once or marks the key visited and issues its GET
CrawlDispatches(url, depth, visited) ==
    /\ ~TooDeep(depth)
    /\ ~AlreadyVisited(normalizeUrl(url), visited)

NewCall(url, depth, parent) ==
    [url |-> url, depth |-> depth, parent |-> parent, pc |-> "fetching",
     foundUrls |-> <<url>>, result |-> <<>>]

\* the $('a').each callback of lines 62-88 run over links[i..]; acc carries the
\* visited set, the calls and the foundUrls of call c while the loop runs
RECURSIVE EachLink(_, _, _, _)
EachLink(links, i, c, acc) ==
    IF i > Len(links) THEN acc
    ELSE LET absoluteUrl        == links[i]
             absoluteNormalized == normalizeUrl(absoluteUrl)
             depth              == acc.calls[c].depth + 1
         IN  IF absoluteNormalized = Null
                  \/ ~IsNewInternal(absoluteNormalized, baseUrl, acc.visited)
             THEN EachLink(links, i + 1, c, acc)
             ELSE LET found == [acc EXCEPT !.calls[c].foundUrls = Append(@, absoluteUrl)]
                  IN  IF CrawlDispatches(absoluteUrl, depth, found.visited)
                      THEN EachLink(links, i + 1, c,
                             [visited |-> found.visited \cup {absoluteNormalized},
                              calls   |-> Append(found.calls, NewCall(absoluteUrl, depth, c)),
                              log     |-> Append(found.log,
                                            [url |-> absoluteUrl, key |-> absoluteNormalized,
                                             depth |-> depth, parent |-> depth - 1])])
                      ELSE EachLink(links, i + 1, c, found)

\* lines 108-123
StartCrawl(url) ==
    /\ phase = "idle"
    /\ startUrl' = url
    /\ IF ParseUrl(url).ok
       THEN /\ baseUrl' = ParseUrl(url).origin
            /\ phase' = "crawling"
            /\ IF CrawlDispatches(url, 1, {})
               THEN /\ visitedUrls' = {normalizeUrl(url)}
                    /\ calls' = <<NewCall(url, 1, 0)>>
                    /\ dispatched' = <<[url |-> url, key |-> normalizeUrl(url),
                                        depth |-> 1, parent |-> 0]>>
               ELSE UNCHANGED <<visitedUrls, calls, dispatched>>
       ELSE /\ phase' = "crawlThrew"
            /\ UNCHANGED <<baseUrl, visitedUrls, calls, dispatched>>
    /\ UNCHANGED uniqueUrls
    /\ UNCHANGED safeVars
    /\ UNCHANGED restVars

\* the GET of call c settles: lines 50-99 up to await Promise.all
CrawlSettles(c, a) ==
    /\ phase = "crawling"
    /\ c \in 1..Len(calls)
    /\ calls[c].pc = "fetching"
    /\ IF a.kind = "page"
       THEN LET acc == EachLink(a.links, 1, c,
                         [visited |-> visitedUrls, calls |-> calls, log |-> dispatched])
            IN  /\ visitedUrls' = acc.visited
                /\ calls' = [acc.calls EXCEPT ![c].pc = "waiting"]
                /\ dispatched' = acc.log
       ELSE /\ calls' = [calls EXCEPT ![c].pc = "resolved", ![c].result = <<>>]
            /\ UNCHANGED <<visitedUrls, dispatched>>
    /\ UNCHANGED <<phase, startUrl, baseUrl, uniqueUrls>>
    /\ UNCHANGED safeVars
    /\ UNCHANGED restVars

\* foundUrls.concat(...results): the results of the children of c, in call order
RECURSIVE ConcatResults(_, _, _)
ConcatResults(cs, c, k) ==
    IF k > Len(cs) THEN <<>>
    ELSE (IF cs[k].parent = c THEN cs[k].result ELSE <<>>) \o ConcatResults(cs, c, k + 1)

\* lines 91-94: every promise of call c has resolved
CrawlResolves(c) ==
    /\ phase = "crawling"
    /\ c \in 1..Len(calls)
    /\ calls[c].pc = "waiting"
    /\ \A k \in 1..Len(calls) : calls[k].parent = c => calls[k].pc = "resolved"
    /\ calls' = [calls EXCEPT ![c].pc = "resolved",
                              ![c].result = calls[c].foundUrls \o ConcatResults(calls, c, 1)]
    /\ UNCHANGED <<phase, startUrl, baseUrl, visitedUrls, uniqueUrls, dispatched>>
    /\ UNCHANGED safeVars
    /\ UNCHANGED restVars

\* lines 123-131
CrawlReturns ==
    /\ phase = "crawling"
    /\ calls = <<>> \/ calls[1].pc = "resolved"
    /\ uniqueUrls' = IF calls = <<>> THEN <<>> ELSE Dedup(calls[1].result)
    /\ phase' = "crawlReturned"
    /\ UNCHANGED <<startUrl, baseUrl, visitedUrls, calls, dispatched>>
    /\ UNCHANGED safeVars
    /\ UNCHANGED restVars

Next ==
    \/ \E url \in Seeds : StartSafeCrawl(url)
    \/ \E ok \in BOOLEAN : BrowserLaunched(ok)
    \/ \E ok \in BOOLEAN : BrowserClose(ok)
    \/ \E ok \in BOOLEAN : CatchClose(ok)
    \/ \E a \in Answers : AxiosSettles(a)
    \/ BackoffElapsed
    \/ \E o \in PuppeteerOutcomes : PuppeteerSettles(o)
    \/ HandleResult
    \/ LoopHead
    \/ DelayElapsed
    \/ \E url \in Seeds : StartCrawl(url)
    \/ \E c \in 1..Len(calls), a \in CrawlAnswers : CrawlSettles(c, a)
    \/ \E c \in 1..Len(calls) : CrawlResolves(c)
    \/ CrawlReturns

Spec == Init /\ [][Next]_vars

\* ------------------------------------------------------------------------
\* startSafeCrawl alone, with the scheduling of the event loop: every
\* promise the run awaits settles (a GET and a render end by their timeout
\* at the latest, a timer fires, launch and close answer) and the
\* continuation of a settled promise is run
\* ------------------------------------------------------------------------

NextSafeCrawl ==
    \/ \E url \in Seeds : StartSafeCrawl(url)
    \/ \E ok \in BOOLEAN : BrowserLaunched(ok)
    \/ \E ok \in BOOLEAN : BrowserClose(ok)
    \/ \E ok \in BOOLEAN : CatchClose(ok)
    \/ \E a \in Answers : AxiosSettles(a)
    \/ BackoffElapsed
    \/ \E o \in PuppeteerOutcomes : PuppeteerSettles(o)
    \/ HandleResult
    \/ LoopHead
    \/ DelayElapsed

\* nobody is obliged to call startSafeCrawl; once it is called, no await of
\* the run is left pending for ever
FairSafeCrawl ==
    /\ WF_vars(\E ok \in BOOLEAN : BrowserLaunched(ok))
    /\ WF_vars(\E ok \in BOOLEAN : BrowserClose(ok))
    /\ WF_vars(\E ok \in BOOLEAN : CatchClose(ok))
    /\ WF_vars(\E a \in Answers : AxiosSettles(a))
    /\ WF_vars(BackoffElapsed)
    /\ WF_vars(\E o \in PuppeteerOutcomes : PuppeteerSettles(o))
    /\ WF_vars(HandleResult)
    /\ WF_vars(LoopHead)
    /\ WF_vars(DelayElapsed)

InitTerminates ==
    /\ phase = "idle"
    /\ startUrl = <<>>
    /\ baseUrl = <<>>
    /\ browser = "none"
    /\ visitedUrls = {}
    /\ crawlResults = <<>>
    /\ stack = <<>>
    /\ fetch = IdleFetch
    /\ calls = <<>>
    /\ uniqueUrls = <<>>
    /\ dispatched = <<>>
    \* one page less than Spec, where the page limit stops the crawl, and one
    \* level less, where the depth limit does
    /\ CONFIG \in { [MAX_DEPTH |-> MAX_DEPTH, MAX_PAGES |-> MAX_PAGES - 1],
                    [MAX_DEPTH |-> MAX_DEPTH - 1, MAX_PAGES |-> MAX_PAGES] }
    /\ closeLog = NoClose
    /\ norm = IdleNorm
    /\ render = IdleRender
    /\ request = IdleRequest
    /\ crawlQueue = NewQueue

SpecTerminates == InitTerminates /\ [][NextSafeCrawl]_vars /\ FairSafeCrawl


\* ------------------------------------------------------------------------
\* normalizeUrl on its own: a caller normalizes a URL, normalizes the key it
\* got, and normalizes a URL made of the key, a trailing slash, a query
\* string and a fragment
\* ------------------------------------------------------------------------

\* longest pathname, in tokens
MaxPathLen == 3

\* what a crawl and the callers of crawlWithPuppeteer write
crawlVars == <<phase, startUrl, baseUrl, browser, visitedUrls, crawlResults, stack, fetch,
               calls, uniqueUrls, dispatched, CONFIG, closeLog>>

\* pathnames: empty, or a slash followed by slashes and segments
NormPaths ==
    { <<>> } \cup
    UNION { { p \in [1..n -> {"/", "x"}] : p[1] = "/" } : n \in 1..MaxPathLen }

OptionalQuery == { <<>> } \cup { <<q>> : q \in QueryTokens }

OptionalHash == { <<>> } \cup { <<h>> : h \in HashTokens }

\* the arguments normalizeUrl is called with
NormUrls ==
    { SeedUrl \o p \o q \o h : p \in NormPaths, q \in OptionalQuery, h \in OptionalHash }
      \cup { BadUrl }

\* the URLs that differ from url only by a trailing slash, a query string
\* or a fragment
Variants(url) ==
    { url \o sl \o q \o h :
        sl \in { <<>>, <<"/">> }, q \in OptionalQuery, h \in OptionalHash }

\* key = normalizeUrl(url)
NormalizeUrl(url) ==
    /\ norm.pc = "idle"
    /\ norm' = [IdleNorm EXCEPT !.pc = "keyed", !.url = url, !.key = normalizeUrl(url)]
    /\ UNCHANGED <<crawlVars, render, request, crawlQueue>>

\* again = normalizeUrl(key)
NormalizeKey ==
    /\ norm.pc = "keyed"
    /\ norm.key # Null
    /\ norm' = [norm EXCEPT !.pc = "again", !.again = normalizeUrl(norm.key)]
    /\ UNCHANGED <<crawlVars, render, request, crawlQueue>>

\* variantKey = normalizeUrl(variant)
NormalizeVariant(variant) ==
    /\ norm.pc = "again"
    /\ norm' = [norm EXCEPT !.pc = "compared", !.variant = variant,
                            !.variantKey = normalizeUrl(variant)]
    /\ UNCHANGED <<crawlVars, render, request, crawlQueue>>

NextNorm ==
    \/ \E url \in NormUrls : NormalizeUrl(url)
    \/ NormalizeKey
    \/ \E variant \in Variants(norm.key) : NormalizeVariant(variant)

SpecNorm == Init /\ [][NextNorm]_vars


\* ------------------------------------------------------------------------
\* crawlWithPuppeteer on its own: a caller that holds an open browser calls
\* it several times, with its browser or with none
\* ------------------------------------------------------------------------

\* calls of crawlWithPuppeteer one caller makes
MaxRenders == 3

\* the awaits on the page between newPage() and the return, in order
\* (the screenshot is off: CONFIG.SCREENSHOT_ENABLED = false)
PageSteps ==
    <<"setUserAgent", "setViewport", "goto", "waitForTimeout", "content",
      "evaluateLinks", "evaluateMetadata", "close">>

\* the browser is closed whoever owns it
shouldCloseBrowserAlways(browserArg) == TRUE

\* line 272: shouldCloseBrowser = !browser
shouldCloseBrowser(browserArg) == browserArg = "null"

\* the finally block is entered: lines 373-377
EnterFinally(r) ==
    IF shouldCloseBrowser(r.browserArg) /\ r.localBrowser # "null"
    THEN [r EXCEPT !.pc = "finally"]
    ELSE [r EXCEPT !.pc = "returned"]

\* the catch block, lines 366-372, then the finally block
CatchRender(r) == EnterFinally([r EXCEPT !.result = "failure"])

\* crawlWithPuppeteer(url, browser) up to its first await
RenderCall(browserArg) ==
    /\ render.pc \in {"idle", "returned", "threw"}
    /\ render.calls < MaxRenders
    /\ render' = [render EXCEPT
                    !.pc = IF browserArg = "null" THEN "launch" ELSE "newPage",
                    !.browserArg = browserArg, !.localBrowser = browserArg,
                    !.own = "none", !.page = "none", !.step = 0,
                    !.result = "none", !.calls = @ + 1]
    /\ UNCHANGED <<crawlVars, norm, request, crawlQueue>>

\* lines 279-291: puppeteer.launch settles
LaunchSettles(ok) ==
    /\ render.pc = "launch"
    /\ render' = IF ok
                 THEN [render EXCEPT !.pc = "newPage", !.localBrowser = "own",
                                     !.own = "open"]
                 ELSE CatchRender(render)
    /\ UNCHANGED <<crawlVars, norm, request, crawlQueue>>

\* line 293: localBrowser.newPage() settles
NewPageSettles(ok) ==
    /\ render.pc = "newPage"
    /\ render' = IF ok
                 THEN [render EXCEPT !.pc = "page", !.page = "open", !.step = 1,
                          !.sharedPages = IF render.localBrowser = "shared"
                                          THEN @ + 1 ELSE @]
                 ELSE CatchRender(render)
    /\ UNCHANGED <<crawlVars, norm, request, crawlQueue>>

\* lines 296-352: one await on the page settles; the last one is page.close()
PageStepSettles(ok) ==
    /\ render.pc = "page"
    /\ render' =
         IF ~ok THEN CatchRender(render)
         ELSE IF PageSteps[render.step] = "close"
         THEN EnterFinally([render EXCEPT
                  !.page = "closed", !.result = "success",
                  !.sharedPages = IF render.localBrowser = "shared" THEN @ - 1 ELSE @])
         ELSE [render EXCEPT !.step = @ + 1]
    /\ UNCHANGED <<crawlVars, norm, request, crawlQueue>>

\* line 375: localBrowser.close() settles; a rejection leaves the finally
\* block as the rejection of crawlWithPuppeteer
FinallySettles(ok) ==
    /\ render.pc = "finally"
    /\ render' =
         IF ~ok THEN [render EXCEPT !.pc = "threw"]
         ELSE IF render.localBrowser = "shared"
         THEN [render EXCEPT !.pc = "returned", !.shared = "closed", !.sharedPages = 0]
         ELSE [render EXCEPT !.pc = "returned", !.own = "closed",
                             !.page = IF @ = "open" THEN "gone" ELSE @]
    /\ UNCHANGED <<crawlVars, norm, request, crawlQueue>>

NextRender ==
    \/ \E browserArg \in {"null", "shared"} : RenderCall(browserArg)
    \/ \E ok \in BOOLEAN : LaunchSettles(ok)
    \/ \E ok \in BOOLEAN : NewPageSettles(ok)
    \/ \E ok \in BOOLEAN : PageStepSettles(ok)
    \/ \E ok \in BOOLEAN : FinallySettles(ok)

SpecRender == Init /\ [][NextRender]_vars


\* ------------------------------------------------------------------------
\* startSafeCrawl against one site: a homepage with three links of its own
\* origin and one of another origin, every page served without error, under
\* a budget of 5 pages and a maximum depth of 1, 2, ...
\* ------------------------------------------------------------------------

\* largest CONFIG.MAX_DEPTH the site is crawled with
MaxScenarioDepth == 2

ScenarioBudget(maxDepth) == [MAX_DEPTH |-> maxDepth, MAX_PAGES |-> 5]

PageA == SeedUrl \o <<"/", "a">>

PageB == SeedUrl \o <<"/", "b">>

PageC == SeedUrl \o <<"/", "c">>

ScenarioLinks == <<PageA, PageB, PageC, <<"https://", "other.org", "/", "x">> >>

\* the anchors of the page served at url: the homepage, or a page that
\* links back to the homepage and to /a
PageLinks(url) ==
    IF normalizeUrl(url) = normalizeUrl(SeedUrl) THEN ScenarioLinks
    ELSE <<SeedUrl, PageA>>

\* bodies with enough text: static, or carrying a framework marker
ScenarioHtmls ==
    { h \in Htmls : h.parses /\ ~h.empty /\ h.bodyLen >= MIN_CONTENT }

\* what axiosInstance.get(url) meets on the site
ScenarioAnswers(url) ==
    { [kind |-> "http", status |-> 200, html |-> h, links |-> PageLinks(url),
       err |-> NoError] : h \in ScenarioHtmls }

\* what a render of url gives on the site
ScenarioRenders(url) == { [success |-> TRUE, links |-> PageLinks(url)] }

InitScenario ==
    /\ phase = "idle"
    /\ startUrl = <<>>
    /\ baseUrl = <<>>
    /\ browser = "none"
    /\ visitedUrls = {}
    /\ crawlResults = <<>>
    /\ stack = <<>>
    /\ fetch = IdleFetch
    /\ calls = <<>>
    /\ uniqueUrls = <<>>
    /\ dispatched = <<>>
    /\ CONFIG \in { ScenarioBudget(maxDepth) : maxDepth \in 1..MaxScenarioDepth }
    /\ closeLog = NoClose
    /\ norm = IdleNorm
    /\ render = IdleRender
    /\ request = IdleRequest
    /\ crawlQueue = NewQueue

NextScenario ==
    \/ StartSafeCrawl(SeedUrl)
    \/ BrowserLaunched(TRUE)
    \/ BrowserClose(TRUE)
    \/ \E a \in ScenarioAnswers(fetch.url) : AxiosSettles(a)
    \/ \E o \in ScenarioRenders(fetch.url) : PuppeteerSettles(o)
    \/ HandleResult
    \/ LoopHead
    \/ DelayElapsed

SpecScenario == InitScenario /\ [][NextScenario]_vars


\* ------------------------------------------------------------------------
\* startSafeCrawl against a hub: a homepage with more links than the child
\* cap, the first of them on a host that only starts like the seed's; every
\* page under the homepage links back to it and to one page of its own
\* ------------------------------------------------------------------------

\* links of the homepage beyond the child cap
MaxExtraLinks == 2

LookalikeUrl == <<"https://", "example.com", ".evil.org", "/", "x">>

\* the anchors of the homepage, in document order
HubLinks ==
    <<LookalikeUrl>> \o [i \in 1..(MAX_CHILDREN + MaxExtraLinks - 1) |->
                          SeedUrl \o <<"/", ToString(i)>>]

\* the anchors of the page served at url
HubPageLinks(url) ==
    IF normalizeUrl(url) = normalizeUrl(SeedUrl) THEN HubLinks
    ELSE IF url = LookalikeUrl THEN <<>>
    ELSE <<SeedUrl, url \o <<"/", "more">> >>

\* what axiosInstance.get(url) meets: the page, or for the lookalike host
\* also a failed name lookup
HubAnswers(url) ==
    { [kind |-> "http", status |-> 200,
       html |-> [empty |-> FALSE, tokens |-> {}, bodyLen |-> 500, parses |-> TRUE],
       links |-> HubPageLinks(url), err |-> NoError] }
      \cup (IF url = LookalikeUrl
            THEN { [kind |-> "error", status |-> 0, html |-> EmptyHtml,
                    links |-> <<>>, err |-> [code |-> "ENOTFOUND", status |-> 0]] }
            ELSE {})

\* what a render gives: it fails, or returns the anchors of the page
HubRenders(url) ==
    { [success |-> FALSE, links |-> <<>>],
      [success |-> TRUE, links |-> HubPageLinks(url)] }

InitHub ==
    /\ phase = "idle"
    /\ startUrl = <<>>
    /\ baseUrl = <<>>
    /\ browser = "none"
    /\ visitedUrls = {}
    /\ crawlResults = <<>>
    /\ stack = <<>>
    /\ fetch = IdleFetch
    /\ calls = <<>>
    /\ uniqueUrls = <<>>
    /\ dispatched = <<>>
    \* CONFIG of htmlBuilder.js as it is
    /\ CONFIG = [MAX_DEPTH |-> MAX_DEPTH, MAX_PAGES |-> 50]
    /\ closeLog = NoClose
    /\ norm = IdleNorm
    /\ render = IdleRender
    /\ request = IdleRequest
    /\ crawlQueue = NewQueue

NextHub ==
    \/ StartSafeCrawl(SeedUrl)
    \/ BrowserLaunched(TRUE)
    \/ BrowserClose(TRUE)
    \/ \E a \in HubAnswers(fetch.url) : AxiosSettles(a)
    \/ \E o \in HubRenders(fetch.url) : PuppeteerSettles(o)
    \/ HandleResult
    \/ LoopHead
    \/ DelayElapsed

SpecHub == InitHub /\ [][NextHub]_vars


\* ------------------------------------------------------------------------
\* CrawlQueue of crawlQueue.js: add, start, processQueue, processUrl
\* ------------------------------------------------------------------------

\* start() calls made on one queue
MaxStarts == 2

\* options.maxConcurrent handed to the constructor
MaxConcurrentOption == 2

QUEUE_CONFIG == [MAX_CONCURRENT |-> 5, RATE_LIMIT_DELAY |-> 1000, MAX_RETRIES |-> 2]

PRIORITY_LEVELS == [HIGH |-> 1, NORMAL |-> 2, LOW |-> 3]

Priorities == {PRIORITY_LEVELS.HIGH, PRIORITY_LEVELS.NORMAL, PRIORITY_LEVELS.LOW}

\* options.maxConcurrent || QUEUE_CONFIG.MAX_CONCURRENT
maxConcurrent ==
    IF MaxConcurrentOption # 0 THEN MaxConcurrentOption ELSE QUEUE_CONFIG.MAX_CONCURRENT

\* the url is completed, failed, active or pending: lines 80 and 85
Known(q, url) ==
    \/ url \in DOMAIN q.completed
    \/ url \in q.failed
    \/ url \in q.active
    \/ \E i \in 1..Len(q.queue) : q.queue[i].url = url

\* this.queue.sort((a, b) => a.priority - b.priority): a stable sort
SortByPriority(items) ==
    SelectSeq(items, LAMBDA item : item.priority = PRIORITY_LEVELS.HIGH)
      \o SelectSeq(items, LAMBDA item : item.priority = PRIORITY_LEVELS.NORMAL)
      \o SelectSeq(items, LAMBDA item : item.priority = PRIORITY_LEVELS.LOW)

\* add(url, {priority})
add(url, priority) ==
    /\ crawlQueue' =
         IF Known(crawlQueue, url) THEN crawlQueue
         ELSE [crawlQueue EXCEPT
                 !.queue = SortByPriority(Append(@, [url |-> url, priority |-> priority,
                                                      retries |-> 0])),
                 !.stats.totalQueued = @ + 1]
    /\ UNCHANGED <<crawlVars, norm, render, request>>

\* start(): returns at once while running, else enters processQueue
start ==
    /\ crawlQueue.starts < MaxStarts
    /\ crawlQueue' =
         IF crawlQueue.isRunning
         THEN [crawlQueue EXCEPT !.starts = @ + 1, !.alreadyRunning = @ + 1]
         ELSE [crawlQueue EXCEPT !.starts = @ + 1, !.isRunning = TRUE,
                                 !.loops = @ + 1, !.pc = "loop"]
    /\ UNCHANGED <<crawlVars, norm, render, request>>

AvailableSlotsOfEmpty(q) == maxConcurrent

\* line 232
AvailableSlots(q) == maxConcurrent - Cardinality(q.active)

\* the items are handed to processUrl, which enters each in active before
\* its first await: lines 241-255 and 153-159
Dispatch(q, n) ==
    LET batch == SubSeq(q.queue, 1, n)
        urls  == { batch[i].url : i \in 1..n }
    IN  [q EXCEPT !.queue = SubSeq(@, n + 1, Len(@)),
                  !.active = @ \cup urls,
                  !.batch = { batch[i] : i \in 1..n },
                  !.attempts = [u \in DOMAIN @ |-> IF u \in urls THEN @[u] + 1 ELSE @[u]],
                  !.pc = "batch"]

\* one turn of the while loop of processQueue up to its await; when the loop
\* ends start() resumes and clears isRunning
processQueue ==
    /\ crawlQueue.pc = "loop"
    /\ LET q     == crawlQueue
           slots == AvailableSlots(q)
           n     == IF slots < Len(q.queue) THEN slots ELSE Len(q.queue)
       IN  crawlQueue' =
             IF q.queue = <<>> /\ q.active = {}
             THEN [q EXCEPT !.pc = "idle", !.isRunning = FALSE, !.loops = @ - 1]
             ELSE IF slots <= 0 \/ n = 0 THEN [q EXCEPT !.pc = "wait"]
             ELSE Dispatch(q, n)
    /\ UNCHANGED <<crawlVars, norm, render, request>>

\* the 100 ms wait or the rate limit delay is over
TimerFires ==
    /\ crawlQueue.pc \in {"wait", "delay"}
    /\ crawlQueue' = [crawlQueue EXCEPT !.pc = "loop"]
    /\ UNCHANGED <<crawlVars, norm, render, request>>

RequeueAtTail(queue, item) == Append(queue, item)

\* where the catch block puts an item that is retried: this.queue.unshift
Requeue(queue, item) == <<item>> \o queue

\* the catch block of processUrl: lines 197-223
CatchProcessUrl(q, item, throwing) ==
    IF item.retries < QUEUE_CONFIG.MAX_RETRIES
    THEN [q EXCEPT !.queue = Requeue(@, [item EXCEPT !.retries = @ + 1,
                                                  !.priority = PRIORITY_LEVELS.HIGH]),
                   !.active = @ \ {item.url}]
    ELSE LET failed == [q EXCEPT !.failed = @ \cup {item.url},
                                 !.stats.totalFailed = @ + 1,
                                 !.onErrorCalls[item.url] = @ + 1]
         IN  IF throwing = "onError" THEN failed
             ELSE [failed EXCEPT !.active = @ \ {item.url}]

\* lines 168-178: the result is stored
StoreResult(q, item, outcome) ==
    [q EXCEPT !.completed = [u \in DOMAIN @ \cup {item.url} |->
                               IF u = item.url THEN [success |-> outcome = "success"]
                               ELSE @[u]],
              !.stats.totalCompleted = @ + 1,
              !.active = @ \ {item.url}]

\* processUrl from the moment smartCrawl settles to its end: lines 165-223;
\* smartCrawl returns a result with success true ("success"), returns one
\* with success false ("unsuccessful") or throws; throwing names the
\* callback that throws, if any
processUrl(item, outcome, throwing) ==
    /\ crawlQueue.pc = "batch"
    /\ item \in crawlQueue.batch
    /\ LET q == [crawlQueue EXCEPT !.batch = @ \ {item},
                                   !.results[item.url] = outcome]
       IN  crawlQueue' =
             IF outcome = "throws" THEN CatchProcessUrl(q, item, throwing)
             ELSE IF throwing \in {"onProgress", "onComplete"}
             THEN CatchProcessUrl(StoreResult(q, item, outcome), item, throwing)
             ELSE StoreResult(q, item, outcome)
    /\ UNCHANGED <<crawlVars, norm, render, request>>

\* Promise.allSettled resolves: lines 258-263
BatchSettles ==
    /\ crawlQueue.pc = "batch"
    /\ crawlQueue.batch = {}
    /\ crawlQueue' = [crawlQueue EXCEPT
                        !.pc = IF crawlQueue.queue # <<>> THEN "delay" ELSE "loop"]
    /\ UNCHANGED <<crawlVars, norm, render, request>>

QueueItems ==
    [url : QueueUrls, priority : Priorities, retries : 0..QUEUE_CONFIG.MAX_RETRIES]

NextQueue ==
    \/ \E url \in QueueUrls, priority \in Priorities : add(url, priority)
    \/ start
    \/ processQueue
    \/ TimerFires
    \/ \E item \in QueueItems, outcome \in {"success", "unsuccessful", "throws"},
          throwing \in {"none", "onProgress", "onComplete", "onError"} :
         processUrl(item, outcome, throwing)
    \/ BatchSettles

SpecQueue == Init /\ [][NextQueue]_vars


\* ------------------------------------------------------------------------
\* The sitemap controllers and validateUrl: one HTTP request, from the
\* handler's entry to the response (or to next(error))
\* ------------------------------------------------------------------------

\* entries of the longest report an engine hands to a controller
MaxReport == 2

\* the exported handlers that start a crawl
\*   html       htmlSitemapController.js 27-224: validates, crawls, saves
\*   htmlCrawl  htmlSitemapController.js 484-514: calls startCrawl
\*   htmlSafe   htmlSitemapController.js 532-610: validates, crawls
\*   xml        xmlSitemapController.js 9-64: parses, calls startCrawl, saves
\*   xmlSafe    xmlSitemapController.js 85-163: validates, crawls
\*   visual     visualSitemapController.js 5-83: validates, crawls
Handlers == {"html", "htmlCrawl", "htmlSafe", "xml", "xmlSafe", "visual"}

\* the handlers that await validateUrl(validUrl) and test canProceed
ValidatingHandlers == {"html", "htmlSafe", "xmlSafe", "visual"}

\* the handlers that try new URL(url) first
ParsingHandlers == ValidatingHandlers \cup {"xml"}

\* the engine a handler calls
Engine(handler) ==
    IF handler \in {"htmlCrawl", "xml"} THEN "startCrawl" ELSE "startSafeCrawl"

\* req.body.saveToDb, read by the html handler only
SaveFlags(handler) == IF handler = "html" THEN BOOLEAN ELSE {TRUE}

\* new URL(url).href: origin, pathname ("/" when empty), query and fragment
Href(url) ==
    LET parsedUrl == ParseUrl(url)
        rest      == SubSeq(url, IndexFrom(url, 2, QueryTokens \cup HashTokens), Len(url))
    IN  parsedUrl.origin \o parsedUrl.pathname \o rest

\* -- validateUrl (urlValidator.js) --

\* /^https?:\/\//i.test(url)
HasProtocol(url) == url # <<>> /\ url[1] \in SchemeTokens

\* what axios.head can meet: an HTTP answer, or a network/TLS error with its
\* code and whether its message mentions SSL or TLS
HeadAnswers ==
    { [kind |-> "http", status |-> st, code |-> "none", tls |-> FALSE] : st \in {200, 404, 429, 500, 503} }
      \cup { [kind |-> "error", status |-> 0, code |-> c, tls |-> FALSE] :
               c \in {"CERT_HAS_EXPIRED", "UNABLE_TO_VERIFY_LEAF_SIGNATURE",
                      "SELF_SIGNED_CERT_IN_CHAIN", "ECONNREFUSED", "ENOTFOUND",
                      "ETIMEDOUT", "ECONNRESET"} }
      \cup { [kind |-> "error", status |-> 0, code |-> "EPROTO", tls |-> TRUE] }

\* validateStatus of the HEAD request, line 52
headValidateStatus(status) == status < 500

\* the error axios.head throws for an answer; code "none" when it resolves
HeadError(a) ==
    IF a.kind = "error" THEN a
    ELSE IF headValidateStatus(a.status) THEN [a EXCEPT !.code = "none"]
    ELSE [kind |-> "error", status |-> a.status, code |-> "ERR_BAD_RESPONSE", tls |-> FALSE]

AddIssue(v, issue) == [v EXCEPT !.issues = @ \cup {issue}]

AddWarning(v, warning) == [v EXCEPT !.warnings = @ \cup {warning}]

Unsafe(v, issue) == [AddIssue(v, issue) EXCEPT !.isSafe = FALSE]

\* lines 55-65: the HEAD request resolved
AfterHeadResponse(v, status) ==
    LET w == [v EXCEPT !.statusCode = status]
    IN  IF status >= 400 /\ status < 500
        THEN AddWarning(w, "Site returned 4xx - might block crawlers")
        ELSE IF status >= 500 THEN Unsafe(w, "Server error")
        ELSE w

\* lines 66-98: the HEAD request threw
AfterHeadError(v, error) ==
    CASE error.code = "CERT_HAS_EXPIRED" -> Unsafe(v, "SSL certificate expired")
      [] error.code = "UNABLE_TO_VERIFY_LEAF_SIGNATURE" -> Unsafe(v, "Unverified SSL certificate")
      [] error.code = "SELF_SIGNED_CERT_IN_CHAIN" -> Unsafe(v, "Self-signed SSL certificate")
      [] error.code = "ECONNREFUSED" -> Unsafe(v, "Connection refused")
      [] error.code = "ENOTFOUND" -> Unsafe(v, "Domain not found")
      [] error.code = "ETIMEDOUT" -> AddWarning(v, "Connection timed out")
      [] OTHER ->
           IF error.status = 429 THEN AddWarning(v, "Rate limited")
           ELSE IF error.tls THEN AddIssue(v, "SSL/TLS handshake error")
           ELSE AddWarning(v, "Connection issue")

\* the early returns of lines 29 and 41
EarlyReturn(v, issue) ==
    [AddIssue(v, issue) EXCEPT !.pc = "returned", !.isSafe = FALSE, !.canProceed = FALSE]

\* lines 108-116
ValidationResult(v) ==
    [v EXCEPT !.pc = "returned", !.canProceed = v.isSafe /\ v.issues = {}]

\* validateUrl(url) up to await dns.lookup: lines 9-38 and the catch of 103-106
ValidateUrlCall(url) ==
    LET finalUrl == IF HasProtocol(url) THEN url ELSE <<"https://">> \o url
        v == [NoValidation EXCEPT
                !.finalUrl = finalUrl,
                !.warnings = IF HasProtocol(url) THEN {} ELSE {"Protocol missing"}]
    IN  IF ~ParseUrl(finalUrl).ok
        THEN ValidationResult(Unsafe(v, "Invalid URL format"))
        ELSE IF finalUrl[1] \notin SchemeTokens
        THEN EarlyReturn(v, "Invalid protocol")
        ELSE [v EXCEPT !.pc = "dns"]

\* -- the handlers --

\* res.status(status).json(...)
Respond(r, status) == [r EXCEPT !.pc = "responded", !.status = status]

\* the 200 answer: the sitemap built, the summary of the report
RespondOk(r) == Respond([r EXCEPT !.summary = "sent"], 200)

\* an error thrown inside the outer try: the handlers written with the
\* validator answer 400 (SSL) or 500, the two others call next(error)
Catch(r, ssl) ==
    IF r.handler \in ValidatingHandlers
    THEN Respond(r, IF ssl THEN 400 ELSE 500)
    ELSE [r EXCEPT !.pc = "next"]

\* await startSafeCrawl(validUrl) / await startCrawl(url) is reached
StartEngine(r, url) ==
    [r EXCEPT !.pc = "crawling", !.crawl = Engine(r.handler), !.crawlUrl = url]

\* buildHtmlSitemap(urlsList, validUrl): a notice when the list is empty,
\* the document with the nested list otherwise
buildHtmlSitemap(successful) ==
    IF successful = 0 THEN "no pages notice" ELSE "document"

\* the handler up to its first await
HandleRequest(handler, url, saveToDb) ==
    /\ request.pc = "idle"
    /\ LET r == [IdleRequest EXCEPT !.handler = handler, !.url = url,
                                    !.saveToDb = saveToDb]
       IN  request' =
             IF url = <<>> THEN Respond(r, 400)
             ELSE IF handler \in ParsingHandlers /\ ~ParseUrl(url).ok THEN Respond(r, 400)
             ELSE IF handler \in ValidatingHandlers
             THEN [r EXCEPT !.pc = "validating",
                            !.validation = ValidateUrlCall(Href(url))]
             ELSE StartEngine(r, url)
    /\ UNCHANGED <<crawlVars, norm, render, crawlQueue>>

\* dns.lookup settles: lines 37-42
DnsSettles(ok) ==
    /\ request.pc = "validating"
    /\ request.validation.pc = "dns"
    /\ request' = [request EXCEPT !.validation =
                     IF ok THEN [@ EXCEPT !.pc = "head"]
                     ELSE EarlyReturn(@, "Domain not found (DNS lookup failed)")]
    /\ UNCHANGED <<crawlVars, norm, render, crawlQueue>>

\* axios.head settles: lines 47-116
HeadSettles(a) ==
    /\ request.pc = "validating"
    /\ request.validation.pc = "head"
    /\ LET v     == [request.validation EXCEPT !.head = a.status]
           error == HeadError(a)
       IN  request' = [request EXCEPT !.validation =
                         ValidationResult(IF error.code = "none"
                                          THEN AfterHeadResponse(v, a.status)
                                          ELSE AfterHeadError(v, error))]
    /\ UNCHANGED <<crawlVars, norm, render, crawlQueue>>

\* validateUrl has returned to the handler: the canProceed test, then the
\* call of the engine
ValidationReturns ==
    /\ request.pc = "validating"
    /\ request.validation.pc = "returned"
    /\ request' = IF ~request.validation.canProceed
                  THEN Respond(request, 400)
                  ELSE StartEngine(request, Href(request.url))
    /\ UNCHANGED <<crawlVars, norm, render, crawlQueue>>

\* what the engine gives back: it throws (with or without SSL in the
\* message), or returns a report; startCrawl returns URLs, all of them good
EngineOutcomes(engine) ==
    { [kind |-> "threw", ssl |-> b, total |-> 0, successful |-> 0] : b \in BOOLEAN }
      \cup { o \in [kind : {"returned"}, ssl : {FALSE}, total : 0..MaxReport,
                    successful : 0..MaxReport] :
               /\ o.successful <= o.total
               /\ engine = "startCrawl" => o.successful = o.total }

\* the engine settles; the handler goes on to its next await or answers
EngineSettles(o) ==
    /\ request.pc = "crawling"
    /\ o \in EngineOutcomes(request.crawl)
    /\ LET r == [request EXCEPT !.report = [total |-> o.total, successful |-> o.successful]]
       IN  request' =
             IF o.kind = "threw" THEN Catch(request, o.ssl)
             ELSE IF r.handler # "htmlCrawl" /\ o.total = 0 THEN Respond(r, 404)
             ELSE IF r.handler = "html"
             THEN LET b == [r EXCEPT !.html = buildHtmlSitemap(o.successful)]
                  IN  IF b.saveToDb THEN [b EXCEPT !.pc = "saving"]
                      ELSE RespondOk([b EXCEPT !.sitemapId = "null"])
             ELSE IF r.handler = "xml" THEN [r EXCEPT !.pc = "saving"]
             ELSE RespondOk(r)
    /\ UNCHANGED <<crawlVars, norm, render, crawlQueue>>

\* the rejection of save() leaves the handler as any other error does
SaveRejectedRethrown(r) == Catch([r EXCEPT !.save = "failed"], FALSE)

\* save() rejected. html, lines 162-168: logged, savedSitemap stays null and
\* the handler goes on; xml, line 50: the outer catch
SaveRejected(r) ==
    IF r.handler = "html"
    THEN RespondOk([r EXCEPT !.save = "failed", !.sitemapId = "null"])
    ELSE Catch([r EXCEPT !.save = "failed"], FALSE)

\* sitemapDocument.save() settles
SaveSettles(ok) ==
    /\ request.pc = "saving"
    /\ request' = IF ok
                  THEN RespondOk([request EXCEPT !.save = "saved", !.sitemapId = "id"])
                  ELSE SaveRejected(request)
    /\ UNCHANGED <<crawlVars, norm, render, crawlQueue>>

NextRequest ==
    \* req.body.url: absent, unparseable, or a site
    \/ \E handler \in Handlers, url \in {<<>>, BadUrl, SeedUrl} :
          \E saveToDb \in SaveFlags(handler) : HandleRequest(handler, url, saveToDb)
    \/ \E ok \in BOOLEAN : DnsSettles(ok)
    \/ \E a \in HeadAnswers : HeadSettles(a)
    \/ ValidationReturns
    \/ \E o \in EngineOutcomes("startSafeCrawl") : EngineSettles(o)
    \/ \E ok \in BOOLEAN : SaveSettles(ok)

SpecRequest == Init /\ [][NextRequest]_vars


\* ------------------------------------------------------------------------
\* Properties
\* ------------------------------------------------------------------------

\* the run is one of startSafeCrawl
SafeRun == phase \in {"launching", "running", "returned", "catch", "threw"}

DispatchedKeys == { dispatched[i].key : i \in 1..Len(dispatched) }

Successes == { i \in 1..Len(crawlResults) : crawlResults[i].success }

Failures == { i \in 1..Len(crawlResults) : ~crawlResults[i].success }

\* C1: within one run no normalized key is dispatched twice, in the
\* sequential engine and in the one that starts its children in parallel;
\* the visited set is exactly the set of dispatched keys.
C1_NoKeyDispatchedTwice ==
    /\ \A i, j \in 1..Len(dispatched) :
          i # j => dispatched[i].key # dispatched[j].key
    /\ DispatchedKeys = visitedUrls

\* C1 witness: a page listed two different links with one key; the first
\* was dispatched, the second was called and returned at the visited check.
C1_Witness ==
    /\ phase = "running"
    /\ \E k \in 1..Len(stack) :
          /\ Len(stack[k].childUrls) = 2
          /\ stack[k].childUrls[1] # stack[k].childUrls[2]
          /\ normalizeUrl(stack[k].childUrls[1]) = normalizeUrl(stack[k].childUrls[2])
          /\ stack[k].pc = "loop"
          /\ stack[k].i = 3
          /\ ~PageLimitReached(visitedUrls)

\* C2: a run of startSafeCrawl never dispatches more than MAX_PAGES targets:
\* the visited set never grows beyond MAX_PAGES keys.
C2_PageBudget ==
    SafeRun => /\ Len(dispatched) <= MAX_PAGES
               /\ Cardinality(visitedUrls) <= MAX_PAGES

\* C2 witness: the page limit is reached while a frame still holds a child
\* link that was never visited.
C2_Witness ==
    /\ phase = "running"
    /\ Cardinality(visitedUrls) = MAX_PAGES
    /\ \E k \in 1..Len(stack) :
          /\ stack[k].pc = "loop"
          /\ stack[k].i <= Len(stack[k].childUrls)
          /\ normalizeUrl(stack[k].childUrls[stack[k].i]) \notin visitedUrls

C4_OneOutcomePerTarget ==
    SafeRun =>
      /\ \A i, j \in 1..Len(crawlResults) :
            i # j => /\ crawlResults[i].url # crawlResults[j].url
                     /\ normalizeUrl(crawlResults[i].url) # normalizeUrl(crawlResults[j].url)
      /\ \A i \in 1..Len(crawlResults) : crawlResults[i].url = dispatched[i].url
      /\ phase = "returned" =>
            Cardinality(visitedUrls) = Cardinality(Successes) + Cardinality(Failures)
      /\ phase = "running" =>
            Cardinality(visitedUrls) =
              Len(crawlResults) + (IF fetch.pc = "idle" THEN 0 ELSE 1)

\* C4 witness: a run has returned with a failed and a successful outcome.
C4_Witness ==
    /\ phase = "returned"
    /\ Successes # {}
    /\ Failures # {}
    /\ Cardinality(visitedUrls) = MAX_PAGES

\* C5: only links of the seed's origin are dispatched.
C5_SameOriginOnly ==
    SafeRun =>
      \A i \in 1..Len(dispatched) : ParseUrl(dispatched[i].url).origin = baseUrl


\* C6: a URL whose every lightweight attempt fails with a retryable error
\* is attempted MAX_RETRIES + 1 times before fetchWithAxios gives up.
C6_RetryCeiling ==
    (fetch.axios = "threw" /\ ~shouldNotRetry(fetch.error))
        => fetch.gets = MAX_RETRIES + 1

\* C7: when the lightweight fetch has succeeded and its HTML carries a
\* framework marker or has a body text under MIN_CONTENT characters (an
\* empty body included), smartCrawl returns the result of one render.
C7_RenderDecision ==
    (/\ fetch.pc = "done"
     /\ fetch.axios = "resolved"
     /\ fetch.html.parses
     /\ (fetch.html.tokens \cap jsIndicators # {} \/ fetch.html.bodyLen < MIN_CONTENT))
        => (fetch.renders = 1 /\ fetch.result.method = "puppeteer")

\* the case of the lightweight fetch failing: fetchWithAxios threw, or the
\* extraction from its HTML threw
LightFailed ==
    \/ fetch.axios = "threw"
    \/ (fetch.axios = "resolved" /\ ~fetch.html.parses)

\* C8: when the lightweight fetch or the extraction throws, smartCrawl
\* invokes the render fetcher exactly once and returns the render result;
\* it never returns without a result.
C8_FallbackToRender ==
    /\ LightFailed => (fetch.pc \in {"puppeteer", "done"} /\ fetch.renders = 1)
    /\ (LightFailed /\ fetch.pc = "done") =>
          /\ fetch.result.method = "puppeteer"
          /\ fetch.result \in { RenderResult(o) : o \in PuppeteerOutcomes }
    /\ fetch.renders <= 1

\* C8 witness: fetchWithAxios threw and smartCrawl has returned the result
\* of a successful render.
C8_Witness ==
    /\ fetch.pc = "done"
    /\ fetch.axios = "threw"
    /\ fetch.renders = 1
    /\ fetch.result.success
    /\ fetch.result.links # <<>>

\* C9: a page answered with 400, 401, 403, 404 or 410 is recorded as a
\* failed outcome.
C9_ClientErrorIsFailure ==
    \A i \in 1..Len(crawlResults) :
        crawlResults[i].statusCode \in noRetryStatuses => ~crawlResults[i].success

\* the last GET of the lightweight fetch met a DNS-not-found or a
\* malformed-URL error
TerminalLightError ==
    fetch.error.code \in noRetryErrors

\* C10 as stated: after a DNS-not-found or malformed-URL error no further
\* fetch of the URL is made by any strategy and the page is failed.
C10_NoFetchAfterTerminalError ==
    TerminalLightError =>
        /\ fetch.axios = "threw"
        /\ fetch.pc \notin {"backoff", "axios"}
        /\ fetch.renders = 0
        /\ (fetch.pc = "done" => ~fetch.result.success)

\* the step of recursiveCrawl that consumes the result of smartCrawl
ResultRecorded ==
    /\ fetch.pc = "done"
    /\ fetch'.pc # "done"

\* C10 amended: a DNS-not-found or malformed-URL error ends the lightweight
\* fetch at once, without a further lightweight attempt; smartCrawl then
\* makes exactly one render fetch, and the page is recorded as failed
\* exactly when that render fails.
C10_TerminalForLightweightOnly ==
    /\ [](TerminalLightError =>
            /\ fetch.axios = "threw"
            /\ fetch.pc \in {"puppeteer", "done"}
            /\ fetch.renders = 1
            /\ (fetch.pc = "done" => fetch.result.method = "puppeteer"))
    /\ [][(TerminalLightError /\ ResultRecorded) =>
            /\ Len(crawlResults') = Len(crawlResults) + 1
            /\ Last(crawlResults').url = fetch.url
            /\ Last(crawlResults').success = fetch.result.success]_vars

\* C10 witness: the first GET met a DNS error, one render was made and
\* smartCrawl has returned its successful result.
C10_Witness ==
    /\ fetch.pc = "done"
    /\ fetch.error.code = "ENOTFOUND"
    /\ fetch.gets = 1
    /\ fetch.renders = 1
    /\ fetch.result.success

\* C11: a lightweight GET that fails with a TLS/certificate error is the
\* last one of its URL: fetchWithAxios neither waits for a retry nor issues
\* another GET after it.
C11_TlsErrorNeverRetried ==
    fetch.error.code \in tlsErrors =>
        /\ fetch.axios = "threw"
        /\ fetch.pc \notin {"backoff", "axios"}

\* the key is origin + path without a trailing slash
CanonicalKey(key) == key # Null /\ Last(key) # "/"

C13_Idempotent ==
    norm.pc \in {"again", "compared"} => norm.again = norm.key

\* C14: with an unparseable seed startSafeCrawl throws at once: nothing is
\* added to the visited set, no page is fetched, no outcome is recorded and
\* no browser is launched or closed.
C14_BadSeedAborts ==
    (SafeRun /\ ~ParseUrl(startUrl).ok) =>
        /\ phase = "threw"
        /\ browser = "none"
        /\ closeLog = NoClose
        /\ visitedUrls = {}
        /\ dispatched = <<>>
        /\ crawlResults = <<>>
        /\ stack = <<>>
        /\ fetch = IdleFetch

\* C14 witness: startSafeCrawl has thrown for the seed that does not parse.
C14_Witness ==
    /\ phase = "threw"
    /\ startUrl = BadUrl
    /\ baseUrl = <<>>

\* the lightweight response came back and extracting from it threw
LightExtractionThrew ==
    fetch.axios = "resolved" /\ ~fetch.html.parses

\* the children of frame k that its loop has already passed
PassedChildren(k) ==
    LET f == stack[k]
    IN  { j \in 1..Len(f.childUrls) :
            IF f.pc = "call" THEN j <= f.i ELSE j < f.i }

\* every child a loop has passed was dispatched (by this frame or earlier),
\* unless the page budget was used up
SiblingsDispatched ==
    \A k \in 1..Len(stack) :
        \A j \in PassedChildren(k) :
            \/ normalizeUrl(stack[k].childUrls[j]) \in visitedUrls
            \/ PageLimitReached(visitedUrls)

\* C15 as stated: a page whose fetch failed, or whose extraction raised an
\* exception, gets a failed outcome, and the siblings are still dispatched.
C15_FailureGivesFailedOutcome ==
    /\ (SafeRun /\ fetch.pc = "done" /\ LightExtractionThrew)
          => ~fetch.result.success
    /\ SafeRun => SiblingsDispatched

\* the step of recursiveCrawl that records a failed page leaves the run
\* going: the frame of the page returns and its caller moves to the next child
FailureReturnsToCaller ==
    (ResultRecorded /\ ~fetch.result.success) =>
        /\ phase' = "running"
        /\ Len(crawlResults') = Len(crawlResults) + 1
        /\ Last(crawlResults').url = fetch.url
        /\ ~Last(crawlResults').success
        /\ Len(stack') = Len(stack) - 1
        /\ Len(stack) > 1 =>
              /\ stack'[Len(stack')].pc = "loop"
              /\ stack'[Len(stack')].i = stack[Len(stack) - 1].i + 1
              /\ stack'[Len(stack')].childUrls = stack[Len(stack) - 1].childUrls
              /\ SubSeq(stack', 1, Len(stack') - 1) = SubSeq(stack, 1, Len(stack) - 2)

\* startSafeCrawl throws only before the crawl (seed, launch) or when
\* browser.close() rejects after the crawl is over
ThrowsOnlyOutsideTheCrawl ==
    /\ phase' = "threw" => phase \in {"idle", "launching", "catch", "threw"}
    /\ phase' = "catch" => (phase = "catch" \/ (phase = "running" /\ stack = <<>>))

\* C15 amended: a page for which both strategies failed gets a failed
\* outcome and a page whose lightweight extraction threw gets the outcome
\* of its render; in both cases the run goes on: startSafeCrawl does not
\* throw, the caller moves to the next sibling, and every sibling a loop has
\* passed was dispatched unless the page budget was used up.
C15_PageFailureNeverAborts ==
    /\ [](SafeRun =>
            /\ SiblingsDispatched
            /\ (fetch.pc = "done" /\ ~fetch.result.success) => fetch.renders = 1
            /\ (fetch.pc = "done" /\ LightExtractionThrew) =>
                  fetch.result \in { RenderResult(o) : o \in PuppeteerOutcomes })
    /\ [][SafeRun => (FailureReturnsToCaller /\ ThrowsOnlyOutsideTheCrawl)]_vars

\* C15 witness: a child failed, its parent went on to the next sibling, and
\* that sibling has been dispatched.
C15_Witness ==
    /\ phase = "running"
    /\ Len(stack) = 2
    /\ stack[1].pc = "call"
    /\ stack[1].i = 2
    /\ Failures # {}
    /\ ~crawlResults[Len(crawlResults)].success
    /\ crawlResults[Len(crawlResults)].depth = 2
    /\ fetch.pc = "axios"

\* startSafeCrawl is over and had launched its browser
RunOverAfterLaunch ==
    phase \in {"returned", "threw"} /\ browser # "none"

C17_ClosesOnlyItsOwnBrowser ==
    /\ render.shared = "open"
    /\ render.browserArg = "shared" => (render.own = "none" /\ render.pc # "finally")
    /\ (render.pc = "returned" /\ render.browserArg = "null") =>
          render.own \in {"none", "closed"}
    /\ render.own = "open" => render.pc \in {"newPage", "page", "finally", "threw"}

\* C17 witness: a call handed the caller's browser failed on its page, the
\* browser is still open, and a later call without a browser has returned
\* a failure after closing the browser it launched.
C17_Witness ==
    /\ render.pc = "returned"
    /\ render.browserArg = "null"
    /\ render.own = "closed"
    /\ render.result = "failure"
    /\ render.shared = "open"
    /\ render.sharedPages > 0

\* C18: when crawlWithPuppeteer returns, the page it opened is closed: the
\* caller's browser holds no open page between two calls.
C18_PageAlwaysClosed ==
    render.pc = "returned" =>
        /\ render.page # "open"
        /\ render.sharedPages = 0

\* the frames of recursiveCrawl that await smartCrawl
FetchingFrames == { k \in 1..Len(stack) : stack[k].pc = "fetch" }

\* a target is handed to smartCrawl in this step
Dispatches == Len(dispatched') > Len(dispatched)

C20_ScenarioReport ==
    (phase = "returned" /\ startUrl = SeedUrl /\ CONFIG.MAX_PAGES = 5
                        /\ CONFIG.MAX_DEPTH >= 1) =>
        /\ Cardinality(Successes) = 4
        /\ Failures = {}
        /\ { dispatched[i].url : i \in 1..Len(dispatched) } =
              {SeedUrl, PageA, PageB, PageC}

\* a GET or a render is started in this step
AttemptStarts ==
    fetch'.gets + fetch'.renders > fetch.gets + fetch.renders

\* C21: every run of startSafeCrawl ends, whatever the pages link to and
\* however the fetches end: once called it returns its report or throws,
\* and it throws only when the seed does not parse, the launch fails or
\* browser.close() rejects. No URL is retried for ever: a target gets at
\* most MAX_RETRIES GETs and one render, every attempt is made for the
\* target dispatched last, and at most MAX_PAGES targets are dispatched, so
\* a run makes at most MAX_PAGES * (MAX_RETRIES + 1) attempts.
C21_RunTerminates ==
    /\ (phase \in {"launching", "running", "catch"}) ~> (phase \in {"returned", "threw"})
    /\ (phase = "running") ~> (phase = "running" /\ stack = <<>> /\ fetch = IdleFetch)
    /\ [](/\ Len(dispatched) <= CONFIG.MAX_PAGES
          /\ fetch.gets <= MAX_RETRIES
          /\ fetch.renders <= 1
          /\ fetch.attempt <= MAX_RETRIES
          /\ phase = "threw" => (browser = "none" \/ closeLog.calls > closeLog.resolved))
    /\ [][AttemptStarts =>
            /\ fetch'.gets + fetch'.renders = fetch.gets + fetch.renders + 1
            /\ dispatched' # <<>>
            /\ fetch'.url = dispatched'[Len(dispatched')].url
            /\ stack' # <<>>
            /\ stack'[Len(stack')].pc = "fetch"]_vars

\* C21 witness: the run has returned its report after a crawl that used up
\* the page budget, with a page fetched by a render and a page that failed
\* in both strategies.
C21_Witness ==
    /\ phase = "returned"
    /\ Cardinality(visitedUrls) = CONFIG.MAX_PAGES
    /\ Len(crawlResults) = CONFIG.MAX_PAGES
    /\ \E i \in 1..Len(crawlResults) : crawlResults[i].method = "puppeteer"
    /\ Failures # {}


\* C22: when saving the crawl record throws in generateHtmlSitemap, the
\* error is swallowed: the request is answered 200 with the sitemap that
\* was built and the summary, and sitemapId is null.
C22_PersistenceFailureSwallowed ==
    (request.handler = "html" /\ request.save = "failed") =>
        /\ request.pc = "responded"
        /\ request.status = 200
        /\ request.html = buildHtmlSitemap(request.report.successful)
        /\ request.summary = "sent"
        /\ request.sitemapId = "null"

\* C22 witness: the crawl returned a report with a failed page in it, the
\* save was rejected and the request was answered 200.
C22_Witness ==
    /\ request.handler = "html"
    /\ request.crawl = "startSafeCrawl"
    /\ request.report.total > request.report.successful
    /\ request.save = "failed"
    /\ request.status = 200
    /\ request.sitemapId = "null"

\* C23: on every request path of the sitemap controllers the crawl engine
\* is called only after validateUrl has returned canProceed = true for the
\* URL the engine is called with.
C23_CrawlOnlyAfterValidation ==
    request.crawl # "none" =>
        /\ request.validation.pc = "returned"
        /\ request.validation.canProceed
        /\ request.validation.finalUrl = request.crawlUrl


\* the link has the origin of the seed
SameOrigin(link) == ParseUrl(link).ok /\ ParseUrl(link).origin = baseUrl

\* the first n elements of s
Take(s, n) == SubSeq(s, 1, IF Len(s) < n THEN Len(s) ELSE n)

\* the first MAX_CHILDREN same-origin, unvisited links of a page
FirstSameOriginUnvisited(links) ==
    Take(SelectSeq(links, LAMBDA link :
                     SameOrigin(link) /\ normalizeUrl(link) \notin visitedUrls),
         MAX_CHILDREN)

\* position of the outcome of url in the report, 0 when it has none
OutcomeIndex(url) ==
    IF \E i \in 1..Len(crawlResults) : crawlResults[i].url = url
    THEN CHOOSE i \in 1..Len(crawlResults) : crawlResults[i].url = url
    ELSE 0

\* at most MAX_CHILDREN children per page; a child is dispatched by the
\* innermost frame, which is its parent, in the order of the parent's list
\* and while every frame below awaits; the outcome of a page is in the
\* report before its children are dispatched, so before any outcome of a
\* descendant
CapAndOrder ==
    /\ [](SafeRun =>
            /\ \A k \in 1..Len(stack) : Len(stack[k].childUrls) <= MAX_CHILDREN
            /\ \A k \in 1..Len(stack) - 1 :
                  /\ stack[k].pc = "call"
                  /\ stack[k + 1].url = stack[k].childUrls[stack[k].i]
                  /\ OutcomeIndex(stack[k].url) > 0
                  /\ OutcomeIndex(stack[k + 1].url) = 0
                       \/ OutcomeIndex(stack[k].url) < OutcomeIndex(stack[k + 1].url))
    /\ [][(SafeRun /\ Dispatches /\ dispatched # <<>>) =>
            /\ Len(stack') = Len(stack) + 1
            /\ Last(dispatched').url = Last(stack).childUrls[Last(stack).i]
            /\ \A j \in 1..Len(dispatched) :
                  dispatched[j].parent = Last(stack).depth
                    /\ (\E m \in 1..(Last(stack).i - 1) :
                          Last(stack).childUrls[m] = dispatched[j].url)
                  => stack'[Len(stack)].i > 1]_vars

\* the children of a page are the first MAX_CHILDREN of its same-origin,
\* unvisited links
ChildrenAreFirstSameOrigin ==
    [][(SafeRun /\ ResultRecorded /\ Len(stack') = Len(stack)) =>
          stack'[Len(stack')].childUrls = FirstSameOriginUnvisited(fetch.result.links)]_vars

\* C24: after a page completes successfully at most MAX_CHILDREN = 10 of its
\* links are dispatched; they are the first 10 same-origin, unvisited links
\* in extraction order, dispatched one at a time, each with its whole
\* subtree before the next sibling; the outcome of a page precedes every
\* outcome of its descendants in the report.
C24_ChildCapAndOrder ==
    /\ CapAndOrder
    /\ ChildrenAreFirstSameOrigin


\* the URLs of the pending queue
Pending(q) == { q.queue[i].url : i \in 1..Len(q.queue) }

\* every item of the queue that is a retry stands before every fresh one
RetriesFirst(queue) ==
    \A i, j \in 1..Len(queue) :
        (i < j /\ queue[j].retries > 0) => queue[i].retries > 0

\* processUrl of the item ends in this step
Settles(item) == item \in crawlQueue.batch /\ item \notin crawlQueue'.batch

\* processQueue hands a batch to processUrl in this step
BatchDispatched == crawlQueue.pc = "loop" /\ crawlQueue'.pc = "batch"

\* C25: when processing a URL throws with a retry count below MAX_RETRIES
\* the item goes to the head of the pending queue with its retry count
\* raised by one, and is dispatched before every fresh target; when it throws
\* with a retry count of MAX_RETRIES the URL is recorded in failed, onError
\* is called once and the URL is never queued again: MAX_RETRIES + 1
\* attempts in all.
C25_RetryTransition ==
    /\ [](/\ RetriesFirst(crawlQueue.queue)
          /\ \A u \in QueueUrls :
                /\ crawlQueue.attempts[u] <= QUEUE_CONFIG.MAX_RETRIES + 1
                /\ u \in crawlQueue.failed =>
                      /\ crawlQueue.onErrorCalls[u] = 1
                      /\ crawlQueue.attempts[u] = QUEUE_CONFIG.MAX_RETRIES + 1
                      /\ u \notin Pending(crawlQueue)
                /\ u \notin crawlQueue.failed => crawlQueue.onErrorCalls[u] = 0)
    /\ [][/\ \A item \in QueueItems :
                (Settles(item) /\ crawlQueue'.results[item.url] = "throws") =>
                    IF item.retries < QUEUE_CONFIG.MAX_RETRIES
                    THEN /\ crawlQueue'.queue =
                              <<[url |-> item.url, priority |-> PRIORITY_LEVELS.HIGH,
                                 retries |-> item.retries + 1]>> \o crawlQueue.queue
                         /\ item.url \notin crawlQueue'.failed
                    ELSE /\ crawlQueue'.queue = crawlQueue.queue
                         /\ item.url \in crawlQueue'.failed
                         /\ crawlQueue'.onErrorCalls[item.url] = 1
          /\ BatchDispatched =>
                /\ \E n \in 1..Len(crawlQueue.queue) :
                      /\ crawlQueue'.batch = { crawlQueue.queue[i] : i \in 1..n }
                      /\ crawlQueue'.queue = SubSeq(crawlQueue.queue, n + 1, Len(crawlQueue.queue))
                /\ (\E i \in 1..Len(crawlQueue'.queue) : crawlQueue'.queue[i].retries > 0)
                      => \A item \in crawlQueue'.batch : item.retries > 0]_vars

\* C25 witness: a URL whose smartCrawl always threw is failed after three
\* attempts and one onError call, while a target added after its first
\* attempt had to wait for its retries
C25_Witness ==
    \E u, v \in QueueUrls :
        /\ u # v
        /\ u \in crawlQueue.failed
        /\ crawlQueue.results[u] = "throws"
        /\ crawlQueue.attempts[u] = QUEUE_CONFIG.MAX_RETRIES + 1
        /\ crawlQueue.onErrorCalls[u] = 1
        /\ crawlQueue.attempts[v] = 1
        /\ v \in DOMAIN crawlQueue.completed

\* the URLs the queue keeps track of
Tracked(q) == Pending(q) \cup q.active \cup DOMAIN q.completed \cup q.failed

\* C26: no two dispatches of the CrawlQueue target the same normalized key:
\* add rejects a URL whose normalized key is already pending, active,
\* completed or failed.
C26_OneDispatchPerKey ==
    \A u, v \in QueueUrls :
        (u # v /\ normalizeUrl(u) = normalizeUrl(v)) =>
            /\ ~(u \in Tracked(crawlQueue) /\ v \in Tracked(crawlQueue))
            /\ ~(crawlQueue.attempts[u] > 0 /\ crawlQueue.attempts[v] > 0)

\* C27: while start is running the active map never holds more than
\* maxConcurrent URLs, and a start call made while running returns without
\* starting another processing loop.
C27_BoundedConcurrency ==
    /\ [](/\ Cardinality(crawlQueue.active) <= maxConcurrent
          /\ crawlQueue.loops <= 1
          /\ crawlQueue.isRunning <=> crawlQueue.loops = 1)
    /\ [][(crawlQueue'.starts > crawlQueue.starts /\ crawlQueue.isRunning) =>
             /\ crawlQueue'.loops = crawlQueue.loops
             /\ crawlQueue'.alreadyRunning = crawlQueue.alreadyRunning + 1
             /\ [crawlQueue' EXCEPT !.starts = 0, !.alreadyRunning = 0]
                  = [crawlQueue EXCEPT !.starts = 0, !.alreadyRunning = 0]]_vars

\* C27 witness: the active map is full while a target still waits, and a
\* second start call has returned at once
C27_Witness ==
    /\ Cardinality(crawlQueue.active) = maxConcurrent
    /\ crawlQueue.queue # <<>>
    /\ crawlQueue.alreadyRunning = 1
    /\ crawlQueue.loops = 1

\* C28: a URL whose smartCrawl result has success = false ends in the failed
\* map, counted in stats.totalFailed, and is not recorded in completed nor
\* counted in stats.totalCompleted.
C28_UnsuccessfulIsFailed ==
    /\ \A u \in DOMAIN crawlQueue.completed : crawlQueue.completed[u].success
    /\ \A u \in QueueUrls :
          (/\ crawlQueue.results[u] = "unsuccessful"
           /\ u \notin crawlQueue.active
           /\ u \notin Pending(crawlQueue)) => u \in crawlQueue.failed

\* C29: every URL is in at most one of the pending queue, active, completed
\* and failed; stats.totalCompleted = completed.size and stats.totalFailed =
\* failed.size; whatever the callbacks do.
C29_StatePartition ==
    LET q == crawlQueue
    IN  /\ \A i, j \in 1..Len(q.queue) : q.queue[i].url = q.queue[j].url => i = j
        /\ Pending(q) \cap q.active = {}
        /\ Pending(q) \cap DOMAIN q.completed = {}
        /\ Pending(q) \cap q.failed = {}
        /\ q.active \cap DOMAIN q.completed = {}
        /\ q.active \cap q.failed = {}
        /\ DOMAIN q.completed \cap q.failed = {}
        /\ q.stats.totalCompleted = Cardinality(DOMAIN q.completed)
        /\ q.stats.totalFailed = Cardinality(q.failed)

\* C30: when the HEAD request of validateUrl is answered with a status of
\* 500 or more, a 'Server error' issue is recorded and canProceed is false;
\* canProceed is true only if the issues list is empty and isSafe is true.
C30_ServerErrorBlocks ==
    request.validation.pc = "returned" =>
        /\ request.validation.head >= 500 =>
              /\ "Server error" \in request.validation.issues
              /\ ~request.validation.canProceed
        /\ request.validation.canProceed =>
              (request.validation.issues = {} /\ request.validation.isSafe)

====
